---- MODULE Spec2Model ----
(***************************************************************************)
(* The templates / template-parts list page of the site editor             *)
(* (packages/edit-site/src/components/page-templates-template-parts).      *)
(*                                                                         *)
(* State: the router's history stack (the current route params are its top *)
(* entry), the component's `view` state, the dependency the activeView     *)
(* effect last ran with, the postType prop, the fetched records and the    *)
(* two memoised values `authors` and `fields`.                             *)
(*                                                                         *)
(* JS values: `undefined` (and an absent key) is the string UNDEFINED; a   *)
(* nullable array is a sequence of length 0 (null) or 1 (the array).       *)
(***************************************************************************)
EXTENDS Naturals, Sequences, FiniteSets, TLC

VARIABLES history, view, effectDeps, postType, records, authors, fields

vars == <<history, view, effectDeps, postType, records, authors, fields>>

\* ------------------------------------------------------------ bounds

\* Longest history stack explored (the initial entry included).
MaxHistory == 3

\* Longest list of fetched records explored.
MaxRecords == 3

\* ------------------------------------------------------------ constants

UNDEFINED == "undefined"

TEMPLATE_POST_TYPE == "wp_template"
TEMPLATE_PART_POST_TYPE == "wp_template_part"
ENUMERATION_TYPE == "enumeration"
OPERATOR_IS_ANY == "isAny"
LAYOUT_GRID == "grid"
LAYOUT_TABLE == "table"
LAYOUT_LIST == "list"

EMPTY_ARRAY == <<>>

defaultConfigPerViewType(type) ==
    CASE type = LAYOUT_TABLE -> [primaryField |-> "title"]
      [] type = LAYOUT_GRID ->
            [mediaField |-> "preview", primaryField |-> "title",
             columnFields |-> <<"description">>]
      [] type = LAYOUT_LIST ->
            [primaryField |-> "title", mediaField |-> "preview"]

DEFAULT_VIEW ==
    [type |-> LAYOUT_GRID,
     search |-> "",
     page |-> 1,
     perPage |-> 20,
     sort |-> [field |-> "title", direction |-> "asc"],
     hiddenFields |-> <<"preview">>,
     layout |-> defaultConfigPerViewType(LAYOUT_GRID),
     filters |-> <<>>]

TEMPLATE_ACTIONS ==
    <<"edit-post", "reset-template", "rename-template",
      "view-post-revisions", "delete-template">>

\* ------------------------------------------------------------ input sets

ViewTypes == {LAYOUT_GRID, LAYOUT_TABLE, LAYOUT_LIST}
PostTypes == {TEMPLATE_POST_TYPE, TEMPLATE_PART_POST_TYPE}
AuthorTexts == {"Theme", "admin"}

\* The route the page is opened on: /wp_template/all with or without an
\* author segment and a layout parameter.
Route(activeView, layout) ==
    [path |-> "/wp_template/all", activeView |-> activeView,
     layout |-> layout, postId |-> UNDEFINED, postType |-> UNDEFINED,
     canvas |-> UNDEFINED]

InitialRoutes ==
    {Route(a, l) : a \in {UNDEFINED, "Theme"},
                   l \in ViewTypes \cup {UNDEFINED}}

\* The author segments the sidebar links to.
ActiveViews == {"all", "admin"}

\* What the user can set in the data view besides its type, layout and
\* filters: left at the defaults, or all changed.
UserSettings ==
    {[search |-> "", page |-> 1, perPage |-> 20,
      sort |-> [field |-> "title", direction |-> "asc"],
      hiddenFields |-> <<"preview">>],
     [search |-> "home", page |-> 2, perPage |-> 50,
      sort |-> [field |-> "title", direction |-> "desc"],
      hiddenFields |-> <<>>]}

CustomLayout ==
    [primaryField |-> "title", mediaField |-> "preview",
     columnFields |-> <<"author">>]

FilterChoices ==
    {<<>>,
     <<[field |-> "author", operator |-> "isNone", value |-> <<"admin">>]>>}

\* The views the data view component hands to onChangeView.
NewViews ==
    {[type |-> t, search |-> u.search, page |-> u.page,
      perPage |-> u.perPage, sort |-> u.sort,
      hiddenFields |-> u.hiddenFields, layout |-> l, filters |-> f] :
        t \in ViewTypes, u \in UserSettings,
        l \in {defaultConfigPerViewType(LAYOUT_GRID), CustomLayout},
        f \in FilterChoices}

Item(id, type) == [id |-> id, type |-> type, author_text |-> "Theme"]

\* The selections handed to onSelectionChange and to an action.
ItemLists(type) ==
    {<<>>, <<Item("1", type)>>, <<Item("2", type), Item("1", type)>>}

RECURSIVE SeqsUpTo(_, _)
SeqsUpTo(S, n) ==
    IF n = 0 THEN {<<>>}
    ELSE LET shorter == SeqsUpTo(S, n - 1)
         IN shorter \cup {Append(s, x) : s \in shorter, x \in S}

\* Every record list of at most MaxRecords records: record i has id "i".
RecordLists(type) ==
    {[i \in 1..Len(a) |->
        [id |-> ToString(i), type |-> type, author_text |-> a[i]]] :
        a \in SeqsUpTo(AuthorTexts, MaxRecords)}

\* ------------------------------------------------------------ derived values

params == history[Len(history)]

\* const { activeView = 'all', layout } = params
activeViewOf(p) == IF p.activeView = UNDEFINED THEN "all" ELSE p.activeView

\* Mutant: the layout config is left at DEFAULT_VIEW's (grid's).
defaultView_StaleLayout(p) ==
    LET usedType == IF p.layout = UNDEFINED THEN DEFAULT_VIEW.type
                    ELSE p.layout
    IN [DEFAULT_VIEW EXCEPT
          !.type = usedType,
          !.filters =
              IF activeViewOf(p) # "all"
              THEN <<[field |-> "author", operator |-> "isAny",
                      value |-> <<activeViewOf(p)>>]>>
              ELSE <<>>]

defaultView(p) ==
    LET usedType == IF p.layout = UNDEFINED THEN DEFAULT_VIEW.type
                    ELSE p.layout
    IN [DEFAULT_VIEW EXCEPT
          !.type = usedType,
          !.layout = defaultConfigPerViewType(usedType),
          !.filters =
              IF activeViewOf(p) # "all"
              THEN <<[field |-> "author", operator |-> "isAny",
                      value |-> <<activeViewOf(p)>>]>>
              ELSE <<>>]

\* new Set(); records.forEach( t => set.add( t.author_text ) ); Array.from
RECURSIVE authorsSet(_, _)
authorsSet(list, acc) ==
    IF list = <<>> THEN acc
    ELSE LET a == Head(list).author_text
         IN authorsSet(Tail(list),
                       IF \E i \in 1..Len(acc) : acc[i] = a
                       THEN acc ELSE Append(acc, a))

\* Mutant: an array instead of a Set, so a repeated author repeats.
computeAuthors_NoDedup(recs) ==
    IF recs = <<>> THEN EMPTY_ARRAY
    ELSE [i \in 1..Len(recs[1]) |->
            [value |-> recs[1][i].author_text,
             label |-> recs[1][i].author_text]]

computeAuthors(recs) ==
    IF recs = <<>> THEN EMPTY_ARRAY
    ELSE LET set == authorsSet(recs[1], <<>>)
         IN [i \in 1..Len(set) |-> [value |-> set[i], label |-> set[i]]]

\* A descriptor's render closes over view.type: viewType is that value.
previewField(viewType) ==
    [header |-> "Preview", id |-> "preview", viewType |-> viewType,
     minWidth |-> 120, maxWidth |-> 120, enableSorting |-> FALSE]

titleField(pt, viewType) ==
    [header |-> IF pt = TEMPLATE_POST_TYPE THEN "Template"
                ELSE "Template Part",
     id |-> "title", viewType |-> viewType, maxWidth |-> 400,
     enableHiding |-> FALSE, enableGlobalSearch |-> TRUE]

descriptionField(viewType) ==
    [header |-> "Description", id |-> "description", viewType |-> viewType,
     maxWidth |-> 400, minWidth |-> 320, enableSorting |-> FALSE,
     enableGlobalSearch |-> TRUE]

authorField(auth, viewType) ==
    [header |-> "Author", id |-> "author", viewType |-> viewType,
     type |-> ENUMERATION_TYPE, elements |-> auth, width |-> "1%"]

\* Mutant: the description descriptor is pushed under the title's id.
computeFields_DuplicateId(pt, auth, viewType) ==
    LET _fields == <<previewField(viewType), titleField(pt, viewType)>>
        withDescription ==
            IF pt = TEMPLATE_POST_TYPE
            THEN Append(_fields,
                        [descriptionField(viewType) EXCEPT !.id = "title"])
            ELSE _fields
    IN Append(withDescription, authorField(auth, viewType))

computeFields(pt, auth, viewType) ==
    LET _fields == <<previewField(viewType), titleField(pt, viewType)>>
        withDescription ==
            IF pt = TEMPLATE_POST_TYPE
            THEN Append(_fields, descriptionField(viewType))
            ELSE _fields
    IN Append(withDescription, authorField(auth, viewType))

\* Mutant: view.type is missing from the dependencies of `fields`.
Rerender_StaleFields ==
    /\ authors' = IF records' # records THEN computeAuthors(records')
                  ELSE authors
    /\ fields' = IF \/ postType' # postType
                    \/ authors' # authors
                 THEN computeFields(postType', authors', view'.type)
                 ELSE fields

\* The render that follows a state change: useMemo recomputes `authors`
\* when `records` changed and `fields` when postType, authors or view.type
\* changed, and keeps the memoised value otherwise.
Rerender ==
    /\ authors' = IF records' # records THEN computeAuthors(records')
                  ELSE authors
    /\ fields' = IF \/ postType' # postType
                    \/ authors' # authors
                    \/ view'.type # view.type
                 THEN computeFields(postType', authors', view'.type)
                 ELSE fields

\* ------------------------------------------------------------ initial state

NoDeps == "<not run>"

Init ==
    /\ history \in {<<p>> : p \in InitialRoutes}
    /\ view = defaultView(params)
    /\ effectDeps = NoDeps
    /\ postType \in PostTypes
    /\ records = <<>>
    /\ authors = computeAuthors(records)
    /\ fields = computeFields(postType, authors, view.type)

\* ------------------------------------------------------------ actions

\* Mutant: the filter is built for 'all' too.
ActiveViewEffect_FiltersAll ==
    /\ effectDeps # activeViewOf(params)
    /\ view' = [view EXCEPT !.filters =
                  <<[field |-> "author", operator |-> OPERATOR_IS_ANY,
                     value |-> <<activeViewOf(params)>>]>>]
    /\ effectDeps' = activeViewOf(params)
    /\ UNCHANGED <<history, postType, records>>
    /\ Rerender

\* Mutant: a new author filter sends the view back to its first page.
ActiveViewEffect_ResetsPage ==
    /\ effectDeps # activeViewOf(params)
    /\ view' = [view EXCEPT
                  !.page = 1,
                  !.filters =
                     IF activeViewOf(params) # "all"
                     THEN <<[field |-> "author",
                             operator |-> OPERATOR_IS_ANY,
                             value |-> <<activeViewOf(params)>>]>>
                     ELSE <<>>]
    /\ effectDeps' = activeViewOf(params)
    /\ UNCHANGED <<history, postType, records>>
    /\ Rerender

\* useEffect( ..., [ activeView ] ): runs after the first render and after
\* every render in which activeView differs from the last run's.
ActiveViewEffect ==
    /\ effectDeps # activeViewOf(params)
    /\ view' = [view EXCEPT !.filters =
                  IF activeViewOf(params) # "all"
                  THEN <<[field |-> "author", operator |-> OPERATOR_IS_ANY,
                          value |-> <<activeViewOf(params)>>]>>
                  ELSE <<>>]
    /\ effectDeps' = activeViewOf(params)
    /\ UNCHANGED <<history, postType, records>>
    /\ Rerender

\* The mount effect runs before the page handles its first event.
Mounted == effectDeps # NoDeps

\* Mutant: the selection is pushed to the route in every layout.
OnSelectionChange_AnyLayout(items) ==
    /\ Mounted
    /\ Len(history) < MaxHistory
    /\ history' = Append(history,
          [params EXCEPT !.postId =
              IF Len(items) = 1 THEN items[1].id ELSE UNDEFINED])
    /\ UNCHANGED <<view, effectDeps, postType, records>>
    /\ Rerender

OnSelectionChange(items) ==
    /\ Mounted
    /\ IF view.type = LAYOUT_LIST
       THEN /\ Len(history) < MaxHistory
            /\ history' = Append(history,
                  [params EXCEPT !.postId =
                      IF Len(items) = 1 THEN items[1].id ELSE UNDEFINED])
       ELSE UNCHANGED history
    /\ UNCHANGED <<view, effectDeps, postType, records>>
    /\ Rerender

\* Mutant: the current route params are spread into the pushed entry.
OnActionPerformed_SpreadsParams(actionId, items) ==
    /\ Mounted
    /\ IF actionId = "edit-post"
       THEN /\ Len(history) < MaxHistory
            /\ history' = Append(history,
                  [params EXCEPT !.postId = items[1].id,
                                 !.postType = items[1].type,
                                 !.canvas = "edit"])
       ELSE UNCHANGED history
    /\ UNCHANGED <<view, effectDeps, postType, records>>
    /\ Rerender

OnActionPerformed(actionId, items) ==
    /\ Mounted
    /\ IF actionId = "edit-post"
       THEN /\ Len(history) < MaxHistory
            /\ history' = Append(history,
                  [path |-> UNDEFINED, activeView |-> UNDEFINED,
                   layout |-> UNDEFINED, postId |-> items[1].id,
                   postType |-> items[1].type, canvas |-> "edit"])
       ELSE UNCHANGED history
    /\ UNCHANGED <<view, effectDeps, postType, records>>
    /\ Rerender

\* Mutant: the layout config handed over is kept on a change of type.
OnChangeView_KeepsLayout(newView) ==
    /\ Mounted
    /\ IF newView.type # view.type
       THEN /\ Len(history) < MaxHistory
            /\ history' = Append(history,
                  [params EXCEPT !.layout = newView.type])
       ELSE UNCHANGED history
    /\ view' = newView
    /\ UNCHANGED <<effectDeps, postType, records>>
    /\ Rerender

\* Mutant: a change of type is not pushed to the route.
OnChangeView_NoPush(newView) ==
    /\ Mounted
    /\ view' = IF newView.type # view.type
               THEN [newView EXCEPT
                       !.layout = defaultConfigPerViewType(newView.type)]
               ELSE newView
    /\ UNCHANGED <<history, effectDeps, postType, records>>
    /\ Rerender

OnChangeView(newView) ==
    /\ Mounted
    /\ IF newView.type # view.type
       THEN /\ Len(history) < MaxHistory
            /\ history' = Append(history,
                  [params EXCEPT !.layout = newView.type])
            /\ view' = [newView EXCEPT
                  !.layout = defaultConfigPerViewType(newView.type)]
       ELSE /\ UNCHANGED history
            /\ view' = newView
    /\ UNCHANGED <<effectDeps, postType, records>>
    /\ Rerender

\* A sidebar link changes the author segment of the route.
NavigateActiveView(activeView) ==
    /\ Mounted
    /\ Len(history) < MaxHistory
    /\ activeView # params.activeView
    /\ history' = Append(history, [params EXCEPT !.activeView = activeView])
    /\ UNCHANGED <<view, effectDeps, postType, records>>
    /\ Rerender

\* useEntityRecords resolves, or returns a new list.
ResolveRecords(list) ==
    /\ Mounted
    /\ records # <<list>>
    /\ records' = <<list>>
    /\ UNCHANGED <<history, view, effectDeps, postType>>
    /\ Rerender

\* The page is rendered for the other post type; its records are not
\* resolved yet.
ChangePostType(pt) ==
    /\ Mounted
    /\ pt # postType
    /\ postType' = pt
    /\ records' = <<>>
    /\ UNCHANGED <<history, view, effectDeps>>
    /\ Rerender

\* ------------------------------------------------------------ specifications

ViewNext ==
    \/ ActiveViewEffect
    \/ \E items \in ItemLists(postType) : OnSelectionChange(items)
    \/ \E newView \in NewViews : OnChangeView(newView)
    \/ \E activeView \in ActiveViews : NavigateActiveView(activeView)

\* The page's view state, its handlers and the route.
Next ==
    \/ ViewNext
    \/ \E i \in 1..Len(TEMPLATE_ACTIONS) :
          \E items \in ItemLists(postType) \ {<<>>} :
             OnActionPerformed(TEMPLATE_ACTIONS[i], items)

Spec == Init /\ [][Next]_vars

\* The same without post actions: view changes, selections and author
\* segment changes only.
SpecView == Init /\ [][ViewNext]_vars

\* The derived values: every record list, both post types and every view
\* type (the data view switching layout hands over { ...view, type }).
NextFields ==
    \/ ActiveViewEffect
    \/ \E list \in RecordLists(postType) : ResolveRecords(list)
    \/ \E pt \in PostTypes : ChangePostType(pt)
    \/ \E type \in ViewTypes : OnChangeView([view EXCEPT !.type = type])

SpecFields == Init /\ [][NextFields]_vars

\* ------------------------------------------------------------ claims

\* The author filter the claims describe for an author segment.
ClaimedFilters(activeView) ==
    IF activeView = "all" THEN <<>>
    ELSE <<[field |-> "author", operator |-> "isAny",
            value |-> <<activeView>>]>>

\* The author segment of a route, 'all' when the route has none.
Segment(p) == IF p.activeView = UNDEFINED THEN "all" ELSE p.activeView

\* The view but for its filters.
Unfiltered(v) == [v EXCEPT !.filters = <<>>]

\* C1, as claimed: once the activeView effect has run for the current
\* author segment, view.filters is exactly the author filter of that
\* segment (empty for 'all').
C1_FiltersAlwaysReflectActiveView ==
    effectDeps = Segment(params) => view.filters = ClaimedFilters(Segment(params))

\* C1, amended: view.filters is the author filter of the segment in the
\* initial view and right after every run of the activeView effect; between
\* runs only onChangeView changes it, to the filters of the view it is
\* given, whatever the segment.
C1_FiltersFollowEffectAndOnChangeView ==
    /\ view.filters = ClaimedFilters(Segment(params))
    /\ [][/\ effectDeps' # effectDeps =>
                view'.filters = ClaimedFilters(Segment(params'))
          /\ (effectDeps' = effectDeps /\ view'.filters # view.filters) =>
                \E newView \in NewViews :
                    OnChangeView(newView) /\ view'.filters = newView.filters
         ]_vars

C1_Witness ==
    /\ Len(history) >= 2
    /\ effectDeps = "admin"
    /\ params.activeView = "admin"
    /\ view.filters = <<[field |-> "author", operator |-> "isAny",
                         value |-> <<"admin">>]>>
    /\ view.search = "home"

\* C2: the ids of the field descriptors of the derived fields list are
\* pairwise distinct, for every post type, view type and record list.
C2_FieldIdsUnique ==
    \A i, j \in 1..Len(fields) : i # j => fields[i].id # fields[j].id

C2_Witness ==
    /\ postType = TEMPLATE_POST_TYPE
    /\ view.type = LAYOUT_TABLE
    /\ records # <<>> /\ Len(records[1]) >= 2
    /\ Len(fields) = 4

\* C3: the initial view has the route's layout as its type (grid when the
\* route has none), that type's default layout config, the author filter
\* of the route's author segment, and DEFAULT_VIEW's value everywhere else.
C3_InitialViewFromRoute ==
    effectDeps = NoDeps =>
        /\ Len(history) = 1
        /\ view.type = IF params.layout = UNDEFINED THEN "grid"
                       ELSE params.layout
        /\ view.layout =
             CASE view.type = "table" -> [primaryField |-> "title"]
               [] view.type = "grid" ->
                    [mediaField |-> "preview", primaryField |-> "title",
                     columnFields |-> <<"description">>]
               [] view.type = "list" ->
                    [primaryField |-> "title", mediaField |-> "preview"]
        /\ view.filters = ClaimedFilters(Segment(params))
        /\ view.search = "" /\ view.page = 1 /\ view.perPage = 20
        /\ view.sort = [field |-> "title", direction |-> "asc"]
        /\ view.hiddenFields = <<"preview">>
        /\ DOMAIN view = {"type", "search", "page", "perPage", "sort",
                          "hiddenFields", "layout", "filters"}

C3_Witness ==
    /\ effectDeps = NoDeps
    /\ params.layout = "table"
    /\ params.activeView = "Theme"
    /\ view.type = "table"
    /\ view.filters # <<>>

\* C4: the fields list is derived from (postType, authors, view.type)
\* alone: its ids are preview, title, description, author for templates
\* and preview, title, author for template parts, in that order, and each
\* descriptor is the one for the current view type and authors, whatever
\* happened before.
C4_FieldsDerived ==
    /\ [i \in 1..Len(fields) |-> fields[i].id] =
         IF postType = "wp_template"
         THEN <<"preview", "title", "description", "author">>
         ELSE <<"preview", "title", "author">>
    /\ (\E i \in 1..Len(fields) : fields[i].id = "description")
         <=> postType = "wp_template"
    /\ \A i \in 1..Len(fields) : fields[i].viewType = view.type
    /\ fields[Len(fields)].elements = authors

C4_Witness ==
    /\ postType = TEMPLATE_PART_POST_TYPE
    /\ Len(fields) = 3
    /\ view.type = LAYOUT_LIST
    /\ Len(history) >= 3
    /\ Len(authors) = 2

\* C5: onChangeView(newView) with another type than the view's makes the
\* view newView with the default layout config of its type and pushes one
\* entry, the route params with layout set to that type; with the same
\* type it makes the view exactly newView and pushes nothing.
C5_OnChangeView ==
    [][\A newView \in NewViews : OnChangeView(newView) =>
          IF newView.type # view.type
          THEN /\ Unfiltered(view') = Unfiltered(
                     [newView EXCEPT !.layout =
                         CASE newView.type = "table" ->
                                [primaryField |-> "title"]
                           [] newView.type = "grid" ->
                                [mediaField |-> "preview",
                                 primaryField |-> "title",
                                 columnFields |-> <<"description">>]
                           [] newView.type = "list" ->
                                [primaryField |-> "title",
                                 mediaField |-> "preview"]])
               /\ view'.filters = newView.filters
               /\ Len(history') = Len(history) + 1
               /\ SubSeq(history', 1, Len(history)) = history
               /\ history'[Len(history')] =
                     [params EXCEPT !.layout = newView.type]
          ELSE view' = newView /\ history' = history
      ]_vars

C5_Witness ==
    /\ Len(history) >= 2
    /\ history[Len(history) - 1].layout = "table"
    /\ params = [history[Len(history) - 1] EXCEPT !.layout = "list"]
    /\ view.type = "list"
    /\ view.layout = [primaryField |-> "title", mediaField |-> "preview"]
    /\ view.search = "home"

\* C6: onSelectionChange(items) pushes only in list view, and then the
\* route params with postId set to the single selected item's id, or to
\* undefined when none or several are selected; it never changes the view.
C6_OnSelectionChange ==
    [][\A items \in ItemLists(postType) : OnSelectionChange(items) =>
          /\ view' = view
          /\ IF view.type = "list"
             THEN history' = Append(history,
                     [params EXCEPT !.postId =
                         IF Len(items) = 1 THEN items[1].id
                         ELSE UNDEFINED])
             ELSE history' = history
      ]_vars

C6_Witness ==
    /\ view.type = "list"
    /\ Len(history) >= 2
    /\ params.postId = "1"
    /\ history[Len(history) - 1].postId = UNDEFINED
    /\ params = [history[Len(history) - 1] EXCEPT !.postId = "1"]

\* C7: onActionPerformed navigates only for 'edit-post', pushing exactly
\* { postId, postType, canvas: 'edit' } of the first item and none of the
\* other route params; every other action pushes nothing; the view is
\* never changed.
C7_OnActionPerformed ==
    [][\A i \in 1..Len(TEMPLATE_ACTIONS) :
         \A items \in ItemLists(postType) \ {<<>>} :
            OnActionPerformed(TEMPLATE_ACTIONS[i], items) =>
              /\ view' = view
              /\ IF TEMPLATE_ACTIONS[i] = "edit-post"
                 THEN history' = Append(history,
                         [path |-> UNDEFINED, activeView |-> UNDEFINED,
                          layout |-> UNDEFINED, postId |-> items[1].id,
                          postType |-> items[1].type, canvas |-> "edit"])
                 ELSE history' = history
      ]_vars

C7_Witness ==
    /\ Len(history) >= 2
    /\ params.canvas = "edit"
    /\ params.postId = "2"
    /\ params.postType = postType
    /\ params.layout = UNDEFINED
    /\ params.activeView = UNDEFINED
    /\ history[Len(history) - 1].layout = "table"
    /\ history[Len(history) - 1].activeView = "Theme"

\* C8: a run of the activeView effect changes view.filters only: type,
\* search, page, perPage, sort, hiddenFields and layout stay as they were.
C8_EffectChangesFiltersOnly ==
    [][effectDeps' # effectDeps =>
          /\ view'.type = view.type
          /\ view'.search = view.search
          /\ view'.page = view.page
          /\ view'.perPage = view.perPage
          /\ view'.sort = view.sort
          /\ view'.hiddenFields = view.hiddenFields
          /\ view'.layout = view.layout
      ]_vars

C8_Witness ==
    /\ effectDeps = "admin"
    /\ params.activeView = "admin"
    /\ view.filters # <<>>
    /\ view.page = 2
    /\ view.perPage = 50
    /\ view.layout = CustomLayout

\* C9: after any sequence of onChangeView, onSelectionChange and author
\* segment changes, view.type is the route's layout parameter, or grid
\* when the route has none.
C9_TypeMatchesRouteLayout ==
    view.type = IF params.layout = UNDEFINED THEN "grid" ELSE params.layout

C9_Witness ==
    /\ Len(history) >= 3
    /\ history[1].layout = UNDEFINED
    /\ view.type = "list"
    /\ params.layout = "list"
    /\ params.postId = "1"

\* C10: the elements of the author field are the distinct author_text
\* values of the records, each once, in order of first occurrence, with
\* value equal to label; there are none while the records are not there.
C10_AuthorElements ==
    LET list == IF records = <<>> THEN <<>> ELSE records[1]
        first(a) == CHOOSE i \in 1..Len(list) :
                       /\ list[i].author_text = a
                       /\ \A k \in 1..(i - 1) : list[k].author_text # a
        elements == fields[Len(fields)].elements
    IN /\ fields[Len(fields)].id = "author"
       /\ \A i \in 1..Len(list) :
             Cardinality({j \in 1..Len(elements) :
                            elements[j].value = list[i].author_text}) = 1
       /\ \A j \in 1..Len(elements) :
             /\ elements[j].label = elements[j].value
             /\ \E i \in 1..Len(list) :
                   list[i].author_text = elements[j].value
       /\ \A j, k \in 1..Len(elements) :
             j < k => first(elements[j].value) < first(elements[k].value)
       /\ records = <<>> => elements = <<>>

C10_Witness ==
    /\ records # <<>>
    /\ Len(records[1]) = 3
    /\ records[1][1].author_text = "admin"
    /\ records[1][2].author_text = "Theme"
    /\ records[1][3].author_text = "admin"
    /\ Len(fields[Len(fields)].elements) = 2
    /\ fields[Len(fields)].elements[1].value = "admin"

====
